---- MODULE Spec2Model ----
(***************************************************************************)
(* A model of three pieces of simex_platform:                              *)
(*   - PlasmaXRTSCalculator (construction, backengine, _readH5, saveH5),   *)
(*   - parseStaticData / extractDate (regular-expression log parsing),     *)
(*   - DetectorGeometryParameters (property setters) and                   *)
(*     propToBeamParameters (moments of the intensity distributions).      *)
(* Each piece has its own specification (Spec, SpecParse, SpecParams,      *)
(* SpecProp); the variables of the other pieces stay at their initial      *)
(* values.                                                                 *)
(*                                                                         *)
(* Python strings are sequences of one-character strings.  Python floats   *)
(* are exact values: F(n, d) is n/d, Sqrt(n, d) is the square root of n/d  *)
(* and NaN is the not-a-number value, so floating-point rounding is not    *)
(* modelled.                                                               *)
(***************************************************************************)
EXTENDS Integers, Sequences, FiniteSets, TLC

VARIABLES
    \* PlasmaXRTSCalculator
    c_attrs,        \* names of the attributes the calculator object has
    parameters,     \* self.parameters
    run_log,        \* self.__run_log
    run_data,       \* self.__run_data
    tmp_dir,        \* files in self.parameters._tmp_dir: name -> content
    calls,          \* subprocess invocations issued so far
    runs,           \* per backengine call: the steps it took and how it ended
    expected_data,  \* self.__expected_data
    provided_data,  \* self.__provided_data
    input_data,     \* self._input_data: the keys of the dictionary
    h5,             \* the file at self.output_path
    c_last,         \* the last calculator operation and how it ended
    \* parseStaticData
    report,         \* the lines the tool printed
    text,           \* the log text handed to parseStaticData
    static_dict,    \* outcome of parseStaticData
    \* DetectorGeometryParameters
    p_exists,       \* the object has been constructed
    p_fields,       \* the six private fields
    p_last,         \* the last construction or assignment and how it ended
    \* propToBeamParameters
    prop_in,        \* the arguments and the file the last call saw
    prop_out        \* the outcome of the last call

calcVars   == <<c_attrs, parameters, run_log, run_data, tmp_dir, calls, runs,
                expected_data, provided_data, input_data, h5, c_last>>
parseVars  == <<report, text, static_dict>>
paramVars  == <<p_exists, p_fields, p_last>>
propVars   == <<prop_in, prop_out>>
vars       == <<calcVars, parseVars, paramVars, propVars>>

(***************************************************************************)
(* Values.                                                                 *)
(***************************************************************************)
\* A Python value: its type and its payload.
Val(type, kind, n, d, s) == [type |-> type, kind |-> kind, n |-> n, d |-> d, s |-> s]
None         == Val("NoneType", "na", 0, 1, "")
F(n, d)      == Val("float", "rat", n, d, "")
Sqrt(n, d)   == Val("float", "sqrt", n, d, "")
NaN          == Val("float", "nan", 0, 1, "")
Inf          == Val("float", "inf", 0, 1, "")
PyInt(n)     == Val("int", "rat", n, 1, "")
Str(s)       == Val("str", "na", 0, 1, s)

\* Equality of two rational floats.
RatEq(a, b) == a.kind = "rat" /\ b.kind = "rat" /\ a.n * b.d = b.n * a.d
RatLess(a, b) == a.n * b.d < b.n * a.d

Max(a, b) == IF a >= b THEN a ELSE b

(***************************************************************************)
(* Text and regular expressions (module re, as used by extractDate).       *)
(***************************************************************************)
Spaces == {" ", "\t", "\n"}
Digits == {"0", "1", "2", "3", "4", "5", "6", "7", "8", "9"}

\* Regular-expression tokens.
Lit(s)  == [tok |-> "lit",  s |-> s,    c |-> {}]
One(c)  == [tok |-> "one",  s |-> <<>>, c |-> c]
Plus(c) == [tok |-> "plus", s |-> <<>>, c |-> c]

\* The end of the longest run of characters of class c starting at i.
SpanEnd(txt, i, c) ==
    CHOOSE j \in i..(Len(txt) + 1) :
        /\ \A k \in i..(j - 1) : txt[k] \in c
        /\ (j = Len(txt) + 1 \/ txt[j] \notin c)

HasAt(txt, i, s) ==
    /\ i + Len(s) - 1 <= Len(txt)
    /\ \A k \in 1..Len(s) : txt[i + k - 1] = s[k]

\* The position after the match of tokens k.. at position i that a
\* backtracking matcher finds first (greedy repetition), or 0 for no match.
RECURSIVE MatchFrom(_, _, _, _)
RECURSIVE MatchPlus(_, _, _, _, _)
MatchFrom(toks, k, txt, i) ==
    IF k > Len(toks) THEN i
    ELSE LET t == toks[k] IN
         CASE t.tok = "lit" ->
                IF HasAt(txt, i, t.s) THEN MatchFrom(toks, k + 1, txt, i + Len(t.s)) ELSE 0
           [] t.tok = "one" ->
                IF i <= Len(txt) /\ txt[i] \in t.c
                THEN MatchFrom(toks, k + 1, txt, i + 1) ELSE 0
           [] t.tok = "plus" ->
                MatchPlus(toks, k, txt, i, SpanEnd(txt, i, t.c))

\* Repetition: the longest run first, then shorter ones, at least one character.
MatchPlus(toks, k, txt, i, j) ==
    IF j <= i THEN 0
    ELSE LET e == MatchFrom(toks, k + 1, txt, j) IN
         IF e # 0 THEN e ELSE MatchPlus(toks, k, txt, i, j - 1)

\* pattern.findall(text): the non-overlapping matches, leftmost first.
FirstMatchAt(toks, txt, i) ==
    LET at == {p \in i..Len(txt) : MatchFrom(toks, 1, txt, p) # 0}
    IN IF at = {} THEN 0 ELSE CHOOSE p \in at : \A q \in at : p <= q

RECURSIVE FindAllFrom(_, _, _)
FindAllFrom(toks, txt, i) ==
    LET p == FirstMatchAt(toks, txt, i)
    IN IF p = 0 THEN <<>>
       ELSE LET e == MatchFrom(toks, 1, txt, p)
            IN <<SubSeq(txt, p, e - 1)>> \o FindAllFrom(toks, txt, e)

findall(toks, txt) == FindAllFrom(toks, txt, 1)

\* re.compile("=\\s").split(s): the pieces of s between the occurrences of
\* '=' followed by one whitespace character.
RECURSIVE SplitFrom(_, _, _)
SplitFrom(s, start, i) ==
    IF i > Len(s) THEN <<SubSeq(s, start, Len(s))>>
    ELSE IF s[i] = "=" /\ i + 1 <= Len(s) /\ s[i + 1] \in Spaces
         THEN <<SubSeq(s, start, i - 1)>> \o SplitFrom(s, i + 2, i + 2)
         ELSE SplitFrom(s, start, i + 1)

split(s) == SplitFrom(s, 1, 1)

\* float(s) for unsigned decimal literals: surrounding whitespace is
\* stripped; digits with at most one '.', and at least one digit; anything
\* else is a ValueError.
DigitVal(c) ==
    CASE c = "0" -> 0 [] c = "1" -> 1 [] c = "2" -> 2 [] c = "3" -> 3 [] c = "4" -> 4
      [] c = "5" -> 5 [] c = "6" -> 6 [] c = "7" -> 7 [] c = "8" -> 8 [] c = "9" -> 9

RECURSIVE DigitsVal(_)
DigitsVal(s) ==
    IF s = <<>> THEN 0
    ELSE 10 * DigitsVal(SubSeq(s, 1, Len(s) - 1)) + DigitVal(s[Len(s)])

RECURSIVE Pow10(_)
Pow10(k) == IF k = 0 THEN 1 ELSE 10 * Pow10(k - 1)

Strip(s) ==
    LET a == SpanEnd(s, 1, Spaces)
        b == CHOOSE j \in (a - 1)..Len(s) :
                 /\ \A k \in (j + 1)..Len(s) : s[k] \in Spaces
                 /\ (j = a - 1 \/ s[j] \notin Spaces)
    IN SubSeq(s, a, b)

float(s) ==
    LET u  == Strip(s)
        a  == SpanEnd(u, 1, Digits)                 \* end of the integer part
        dot == a <= Len(u) /\ u[a] = "."
        b  == IF dot THEN SpanEnd(u, a + 1, Digits) ELSE a
        ip == SubSeq(u, 1, a - 1)
        fp == IF dot THEN SubSeq(u, a + 1, b - 1) ELSE <<>>
    IN IF b = Len(u) + 1 /\ Len(ip) + Len(fp) > 0
       THEN [ok |-> TRUE, val |-> F(DigitsVal(ip \o fp), Pow10(Len(fp)))]
       ELSE [ok |-> FALSE, val |-> None]

(***************************************************************************)
(* parseStaticData and extractDate.                                        *)
(***************************************************************************)
Keys == <<"fk", "qk", "Sk_ion", "Sk_free", "Sk_core", "Wk", "Sk_total", "ipl", "lfc",
          "debye_waller">>
KeySet == {Keys[i] : i \in 1..Len(Keys)}

\* The literal text each pattern starts with.
Label(key) ==
    CASE key = "fk"       -> <<"f", "(", "k", ")">>
      [] key = "qk"       -> <<"q", "(", "k", ")">>
      [] key = "Sk_ion"   -> <<"S", "_", "i", "i", "(", "k", ")">>
      [] key = "Sk_free"  -> <<"S", "_", "e", "e", "^", "0", "(", "k", ")">>
      [] key = "Sk_core"  -> <<"C", "o", "r", "e", "_", "i", "n", "e", "l", "a", "s", "t",
                               "i", "c", "(", "k", ")">>
      [] key = "Wk"       -> <<"E", "l", "a", "s", "t", "i", "c", "(", "k", ")">>
      [] key = "Sk_total" -> <<"S", "_", "t", "o", "t", "a", "l", "(", "k", ")">>
      [] key = "ipl"      -> <<"I", "P", " ", "d", "e", "p", "r", "e", "s", "s", "i", "o",
                               "n", " ", "[", "e", "V", "]">>
      [] key = "lfc"      -> <<"G", "(", "k", ")">>
      [] key = "debye_waller" -> <<"D", "e", "b", "y", "e", "-", "W", "a", "l", "l", "e",
                                   "r">>

\* <label>\s+=\s\d+\.\d+
DecimalPattern(label) ==
    <<Lit(label), Plus(Spaces), Lit(<<"=">>), One(Spaces),
      Plus(Digits), Lit(<<".">>), Plus(Digits)>>

\* Debye-Waller\s+=\s+[1|\d+.\d+] : the brackets make a character class, so
\* the last token matches a single character.
DebyeWallerPattern(label) ==
    <<Lit(label), Plus(Spaces), Lit(<<"=">>), Plus(Spaces),
      One(Digits \cup {"1", "|", "+", "."})>>

Pattern(key) ==
    IF key = "debye_waller" THEN DebyeWallerPattern(Label(key))
    ELSE DecimalPattern(Label(key))

\* extractDate: [ok, err, val]; line[0] of an empty list is an IndexError and
\* float() of a non-number a ValueError.
extractDate(pattern, data_string) ==
    LET line == findall(pattern, data_string)
    IN IF line = <<>> THEN [ok |-> FALSE, err |-> "IndexError", val |-> None]
       ELSE LET pieces == split(line[1])
                f == float(pieces[Len(pieces)])
            IN IF f.ok THEN [ok |-> TRUE, err |-> "", val |-> f.val]
               ELSE [ok |-> FALSE, err |-> "ValueError", val |-> None]

\* parseStaticData: the keys are extracted in order; the first exception
\* propagates and no dictionary is returned.
staticDictOf(got) ==
    LET bad == {i \in 1..Len(Keys) : ~got[Keys[i]].ok}
    IN IF bad = {}
       THEN [raised |-> "", dict |-> [k \in KeySet |-> got[k].val]]
       ELSE LET first == CHOOSE i \in bad : \A j \in bad : i <= j
            IN [raised |-> got[Keys[first]].err, dict |-> [k \in KeySet |-> None]]

parseStaticData(data_string) ==
    staticDictOf([k \in KeySet |-> extractDate(Pattern(k), data_string)])

(***************************************************************************)
(* The tool's report: one line "<label> = <decimal number>" per quantity.  *)
(***************************************************************************)
\* A printed number with the value it denotes.
Num(str, n, d) == [str |-> str, n |-> n, d |-> d]
Numbers ==
    { Num(<<"0", ".", "9", "5">>, 95, 100),
      Num(<<"1", ".", "0">>, 1, 1),
      Num(<<"1", "2", ".", "5">>, 25, 2),
      Num(<<"3", ".", "2", "5", "0">>, 13, 4) }

ReportLine(key, num) == [key |-> key, num |-> num]

RenderLine(l) == Label(l.key) \o <<" ", "=", " ">> \o l.num.str \o <<"\n">>

RECURSIVE Render(_)
Render(lines) ==
    IF lines = <<>> THEN <<>> ELSE RenderLine(Head(lines)) \o Render(Tail(lines))

\* Every quantity is reported with number b, except quantity k, which is
\* reported with s ("plain"), reported a second time with b at the end
\* ("twice"), or not reported at all ("omitted").
Shapes == {"plain", "twice", "omitted"}
MakeReport(b, k, s, shape) ==
    LET all  == [i \in 1..Len(Keys) |->
                    ReportLine(Keys[i], IF Keys[i] = k THEN s ELSE b)]
        kept == SelectSeq(all, LAMBDA l : shape # "omitted" \/ l.key # k)
    IN IF shape = "twice" THEN kept \o <<ReportLine(k, b)>> ELSE kept

Reports ==
    { MakeReport(b, k, s, shape) : b \in Numbers, k \in KeySet, s \in Numbers,
                                   shape \in Shapes }

\* The first line of the report for quantity k, if any.
HasLine(rep, k) == \E i \in 1..Len(rep) : rep[i].key = k
FirstLine(rep, k) ==
    rep[CHOOSE i \in 1..Len(rep) :
            rep[i].key = k /\ \A j \in 1..(i - 1) : rep[j].key # k]

NoDict == [raised |-> "not run", dict |-> [k \in KeySet |-> None]]

ParseInit ==
    /\ report \in Reports
    /\ text = Render(report)
    /\ static_dict = NoDict

ParseIdle ==
    /\ report = <<>>
    /\ text = <<>>
    /\ static_dict = NoDict

\* static_dict = parseStaticData(run_log)
Parse ==
    /\ static_dict = NoDict
    /\ static_dict' = parseStaticData(text)
    /\ UNCHANGED <<report, text, calcVars, paramVars, propVars>>

(***************************************************************************)
(* DetectorGeometryParameters: the property setters and the constructor.   *)
(***************************************************************************)
Attrs == {"photon_energy", "photon_energy_relative_bandwidth", "beam_diameter_fwhm",
          "pulse_energy", "divergence", "photon_energy_spectrum_type"}

\* SimEx.Utilities.EntityChecks.checkAndSetInstance(cls, var, default):
\* None stands for "not given" and yields the default; any other value must
\* be an instance of cls.
checkAndSetInstance(cls, var, default) ==
    IF var = None
    THEN IF default = None \/ default.type = cls
         THEN [ok |-> TRUE, val |-> default]
         ELSE [ok |-> FALSE, val |-> None]
    ELSE IF var.type = cls
         THEN [ok |-> TRUE, val |-> var]
         ELSE [ok |-> FALSE, val |-> None]

\* The class each setter passes to checkAndSetInstance.
SetterClassNoStrCheck(attr) == "float"
SetterClass(attr) ==
    IF attr = "photon_energy_spectrum_type" THEN "str" ELSE "float"

\* The default each setter passes to checkAndSetInstance.
SetterDefaultAllNone(attr) == None
SetterDefault(attr) ==
    CASE attr = "photon_energy_spectrum_type"      -> Str("SASE")
      [] attr = "photon_energy_relative_bandwidth" -> F(1, 100)
      [] attr = "divergence"                       -> F(0, 1)
      [] OTHER                                     -> None

\* The property setter of attr applied to val.
Setter(attr, val) == checkAndSetInstance(SetterClass(attr), val, SetterDefault(attr))

\* Values offered to the setters.
FloatVals == {F(-1, 1), F(1, 2), F(7, 1)}
StrVals   == {Str("SASE"), Str("tophat"), Str("gauss")}
ArgVals(attr) ==
    {None, PyInt(1)} \cup
    (IF attr = "photon_energy_spectrum_type"
     THEN StrVals \cup {F(1, 2)} ELSE FloatVals \cup {Str("SASE")})

\* The keyword arguments of the constructor.
CtorArgs(pe, bw, bd, pu, dv, st) ==
    [a \in Attrs |->
        CASE a = "photon_energy" -> pe
          [] a = "photon_energy_relative_bandwidth" -> bw
          [] a = "beam_diameter_fwhm" -> bd
          [] a = "pulse_energy" -> pu
          [] a = "divergence" -> dv
          [] a = "photon_energy_spectrum_type" -> st]

Absent == Val("absent", "na", 0, 1, "")
NoArgs == [a \in Attrs |-> Absent]
NoFields == [a \in Attrs |-> None]

ParamsInit ==
    /\ p_exists = FALSE
    /\ p_fields = NoFields
    /\ p_last = [op |-> "none", args |-> NoArgs, raised |-> ""]

\* obj.<attr> = val
SetAttr(attr, val) ==
    /\ p_exists
    /\ LET r == Setter(attr, val)
       IN /\ p_fields' = IF r.ok THEN [p_fields EXCEPT ![attr] = r.val] ELSE p_fields
          /\ p_last' = [op |-> "set", args |-> [NoArgs EXCEPT ![attr] = val],
                        raised |-> IF r.ok THEN "" ELSE "TypeError"]
    /\ UNCHANGED <<p_exists, calcVars, parseVars, propVars>>

\* DetectorGeometryParameters(**args): the six assignments; a failing one
\* propagates and no object results.
Construct(args) ==
    /\ p_last.op = "none"
    /\ LET res == [a \in Attrs |-> Setter(a, args[a])]
           ok  == \A a \in Attrs : res[a].ok
       IN /\ p_exists' = ok
          /\ p_fields' = IF ok THEN [a \in Attrs |-> res[a].val] ELSE p_fields
          /\ p_last' = [op |-> "construct", args |-> args,
                        raised |-> IF ok THEN "" ELSE "TypeError"]
    /\ UNCHANGED <<calcVars, parseVars, propVars>>

(***************************************************************************)
(* propToBeamParameters.                                                   *)
(***************************************************************************)
MaxSlices    == 3       \* mesh.nSlices ranges over 2..MaxSlices
MaxIntensity == 1       \* a slice's integrated intensity ranges over 0..MaxIntensity
MaxFwhm      == 2       \* the FWHM values of the wavefront range over 1..MaxFwhm

\* numpy.linspace(a, b, n) for n >= 2 and b - a a multiple of n - 1.
linspace(a, b, n) == [i \in 1..n |-> a + (i - 1) * ((b - a) \div (n - 1))]

RECURSIVE SumTo(_, _)
SumTo(f, k) == IF k = 0 THEN 0 ELSE f[k] + SumTo(f, k - 1)

\* The zeroth, first and second moment sums of intensity I over mesh x, with
\* the last slice dropped (x[:-1], I[:-1], dx = x[1:] - x[:-1]).
MomentSums(I, x) ==
    LET m  == Len(x) - 1
        dx == [i \in 1..m |-> x[i + 1] - x[i]]
    IN [s0 |-> SumTo([i \in 1..m |-> I[i] * dx[i]], m),
        s1 |-> SumTo([i \in 1..m |-> I[i] * x[i] * dx[i]], m),
        s2 |-> SumTo([i \in 1..m |-> I[i] * x[i] * x[i] * dx[i]], m)]

\* m1 = sum(I*x*dx)/m0 on numpy floats: 0/0 is nan.
FirstMoment(ms) ==
    IF ms.s0 # 0 THEN F(ms.s1, ms.s0) ELSE IF ms.s1 = 0 THEN NaN ELSE Inf

\* m2 - m1**2 = (s2*s0 - s1*s1)/s0**2.
Variance(ms) ==
    IF ms.s0 # 0 THEN F(ms.s2 * ms.s0 - ms.s1 * ms.s1, ms.s0 * ms.s0) ELSE NaN

\* rms = math.sqrt(m2 - m1**2): nan gives nan, a negative number raises.
Rms(v) ==
    IF v.kind = "nan" THEN [raised |-> "", val |-> NaN]
    ELSE IF v.n < 0 THEN [raised |-> "ValueError", val |-> None]
    ELSE [raised |-> "", val |-> Sqrt(v.n, v.d)]

\* spike_fwhm_eV = (constants.hbar/rms)/constants.e, in units of hbar/e:
\* the quotient of two Python floats raises on a zero divisor.
SpikeFwhm(rms) ==
    IF rms.kind = "nan" THEN [raised |-> "", val |-> NaN]
    ELSE IF rms.n = 0 THEN [raised |-> "ZeroDivisionError", val |-> None]
    ELSE [raised |-> "", val |-> Sqrt(rms.d, rms.n)]

\* photon_energy_relative_bandwidth = spike_fwhm_eV/photon_energy, where
\* photon_energy is a numpy float (a zero divisor gives inf).
RelativeBandwidth(spike, energy) ==
    IF spike.kind = "nan" \/ energy.kind = "nan" THEN NaN
    ELSE IF energy.kind = "inf" THEN F(0, 1)
    ELSE IF energy.n = 0 THEN Inf
    ELSE Sqrt(spike.n * energy.d * energy.d, spike.d * energy.n * energy.n)

\* beam_diameter_fwhm = max([xy_fwhm['fwhm_x'], xy_fwhm['fwhm_y']])
BeamDiameter(fwhm) == F(Max(fwhm.x, fwhm.y), 1)

\* divergence = max([qxqy_fwhm['fwhm_x'], qxqy_fwhm['fwhm_y']])/2.
DivergenceOfX(fwhm) == F(fwhm.x, 2)
Divergence(fwhm) == F(Max(fwhm.x, fwhm.y), 2)

\* os.path.isfile(prop_output_path)
isfileAlways(exists) == TRUE
isfile(exists) == exists

\* What a propagation output file holds, with the quantities the wavefront
\* library derives from it.
Wavefronts ==
    UNION { [nSlices  : {n},
             sliceMin : {-1},
             intensity : [1..n -> 0..MaxIntensity],
             energyMin : {1},
             spectrum : [1..n -> 0..1],
             pulse_energy : {F(1, 1000)},
             xy_fwhm  : [x : 1..MaxFwhm, y : 1..MaxFwhm],
             qxqy_fwhm : [x : 1..MaxFwhm, y : 1..MaxFwhm]] : n \in 2..MaxSlices }

NoMoments == [s0 |-> 0, s1 |-> 0, s2 |-> 0]
PropOut(status, wavefront, ms, rms, obj) ==
    [status |-> status, wavefront |-> wavefront, moments |-> ms, rms |-> rms, obj |-> obj]

\* The outcome of propToBeamParameters on a path (exists: it names a file)
\* holding wavefront wf.
propToBeamParametersResult(exists, wf) ==
    IF ~isfile(exists) THEN PropOut("IOError", "none", NoMoments, None, NoFields)
    ELSE IF ~exists THEN PropOut("IOError", "constructed", NoMoments, None, NoFields)
    ELSE
    LET times    == linspace(wf.sliceMin, wf.sliceMin + (wf.nSlices - 1), wf.nSlices)
        mt       == MomentSums(wf.intensity, times)
        rms      == Rms(Variance(mt))
        spike    == SpikeFwhm(rms.val)
        energies == linspace(wf.energyMin, wf.energyMin + (wf.nSlices - 1), wf.nSlices)
        mw       == MomentSums(wf.spectrum, energies)
        rmsw     == Rms(Variance(mw))
        photon_energy == FirstMoment(mw)
        args     == [a \in Attrs |->
                       CASE a = "photon_energy" -> photon_energy
                         [] a = "photon_energy_relative_bandwidth" ->
                                RelativeBandwidth(spike.val, photon_energy)
                         [] a = "pulse_energy" -> wf.pulse_energy
                         [] a = "divergence" -> Divergence(wf.qxqy_fwhm)
                         [] a = "beam_diameter_fwhm" -> BeamDiameter(wf.xy_fwhm)
                         [] a = "photon_energy_spectrum_type" -> Str("SASE")]
        res      == [a \in Attrs |-> Setter(a, args[a])]
    IN IF rms.raised # "" THEN PropOut(rms.raised, "loaded", mt, None, NoFields)
       ELSE IF spike.raised # "" THEN PropOut(spike.raised, "loaded", mt, rms.val, NoFields)
       ELSE IF rmsw.raised # "" THEN PropOut(rmsw.raised, "loaded", mt, rms.val, NoFields)
       ELSE IF \E a \in Attrs : ~res[a].ok
            THEN PropOut("TypeError", "loaded", mt, rms.val, NoFields)
       ELSE PropOut("returned", "loaded", mt, rms.val, [a \in Attrs |-> res[a].val])

PropInit ==
    /\ prop_in = [exists |-> FALSE, wf |-> CHOOSE w \in Wavefronts : TRUE]
    /\ prop_out = PropOut("not called", "none", NoMoments, None, NoFields)

\* beam_parameters = propToBeamParameters(prop_output_path)
propToBeamParameters(exists, wf) ==
    /\ prop_out.status = "not called"
    /\ prop_in' = [exists |-> exists, wf |-> wf]
    /\ prop_out' = propToBeamParametersResult(exists, wf)
    /\ UNCHANGED <<calcVars, parseVars, paramVars>>

(***************************************************************************)
(* PlasmaXRTSCalculator.                                                   *)
(***************************************************************************)
MaxCalls  == 2          \* backengine is called at most MaxCalls times
MaxParams == 2          \* number of distinct parameter objects

\* Objects that may be passed as the 'parameters' argument.
PyObj(type, id) == [type |-> type, id |-> id]
NoObject == PyObj("NoneType", 0)
ParameterArgs ==
    {NoObject, PyObj("dict", 0), PyObj("DetectorGeometryParameters", 0)} \cup
    {PyObj("PlasmaXRTSCalculatorParameters", i) : i \in 1..MaxParams}

\* The classes derived from AbstractCalculatorParameters.
CalculatorParameterClasses ==
    {"AbstractCalculatorParameters", "PlasmaXRTSCalculatorParameters",
     "DetectorGeometryParameters"}

\* isinstance(parameters, AbstractCalculatorParameters)
isinstanceAny(obj) == TRUE
isinstance(obj) == obj.type \in CalculatorParameterClasses

\* checkAndSetParameters(parameters)
checkAndSetParameters(obj) ==
    IF ~isinstance(obj) THEN [raised |-> "RuntimeError", val |-> NoObject]
    ELSE [raised |-> "", val |-> obj]

\* AbstractBaseCalculator.__init__(parameters, input_path, output_path)
BaseAttrs == {"parameters", "input_path", "output_path"}

\* The attributes PlasmaXRTSCalculator.__init__ sets itself.
OwnAttrs == {"is_initialized", "expected_data", "provided_data", "input_data"}

\* parameters._tmp_dir
TmpDirOf(obj) == <<"tmp_dir", obj.id>>

\* The files of the temporary directory.
FileNames == {"input.dat", "xrts_out.txt", "xrts.log"}
NoFile == [exists |-> FALSE, content |-> <<>>]
File(content) == [exists |-> TRUE, content |-> content]

\* A path such as '/data/static/fk' is the sequence of its parts between the
\* '/' characters: <<"", "data", "static", "fk">>.
\* Two adjacent string literals without a comma between them are one string.
Adjacent(p, q) ==
    SubSeq(p, 1, Len(p) - 1) \o <<p[Len(p)] \o Head(q)>> \o Tail(q)

Snp(name) == <<"", "data", "snp_<7 digit index>", name>>

\* self.__expected_data
ExpectedDataList ==
    << Snp("ff"), Snp("halfQ"), Snp("Nph"), Snp("r"), Snp("T"), Snp("Z"), Snp("xyz"),
       Snp("Sq_halfQ"), Snp("Sq_bound"), Snp("Sq_free"),
       <<"", "history", "parent", "detail">>,
       <<"", "history", "parent", "parent">>,
       <<"", "info", "package_version">>,
       <<"", "info", "contact">>,
       <<"", "info", "data_description">>,
       <<"", "info", "method_description">>,
       <<"", "version">> >>

\* self.__provided_data
ProvidedDataListRelative ==
    << <<"", "data", "">>, <<"data", "dynamic", "energy_shifts">> >>
ProvidedDataList ==
    << <<"", "data", "">>,
       Adjacent(<<"", "data", "dynamic">>, <<"", "data", "dynamic", "energy_shifts">>),
       <<"", "data", "dynamic", "Skw_free">>,
       <<"", "data", "dynamic", "Skw_bound">>,
       <<"", "data", "dynamic", "collision_frequency">>,
       Adjacent(<<"", "data", "static">>, <<"", "data", "static", "Sk_bound">>),
       <<"", "data", "static", "Sk_ion">>,
       <<"", "data", "static", "Sk_elastic">>,
       <<"", "data", "static", "Sk_core_inelastic">>,
       <<"", "data", "static", "Sk_free_inelastic">>,
       <<"", "data", "static", "Sk_total">>,
       <<"", "data", "static", "fk">>,
       <<"", "data", "static", "qk">>,
       Adjacent(<<"", "data", "static", "ionization_potential_delta">>,
                <<"", "data", "static", "LFC">>),
       <<"", "history", "parent", "detail">>,
       <<"", "history", "parent", "parent">>,
       <<"", "info", "package_version">>,
       <<"", "info", "contact">>,
       <<"", "info", "data_description">>,
       <<"", "info", "method_description">>,
       Adjacent(Adjacent(<<"", "info", "units", "energy">>,
                         <<"", "info", "units", "structure_factor">>),
                <<"", "params", "beam", "photonEnergy">>),
       <<"", "params", "beam", "spectrum">>,
       <<"", "params", "info">> >>

\* The file at output_path before saveH5 is called.
NoH5 == [exists |-> FALSE, groups |-> {}, datasets |-> {}, closed |-> TRUE]

\* command_sequence
CommandSequence == <<"xrs">>

\* What the tool may print on stdout.
Outs ==
    { <<>>,
      Render(MakeReport(Num(<<"1", ".", "0">>, 1, 1), "fk", Num(<<"1", ".", "0">>, 1, 1),
                        "plain")),
      Render(MakeReport(Num(<<"1", ".", "0">>, 1, 1), "debye_waller",
                        Num(<<"0", ".", "9", "5">>, 95, 100), "plain")) }
Errs == {<<>>, <<"e", "r", "r">>}

\* What the process does to xrts_out.txt.
Writes == {"nothing", "table", "garbage"}

Last(op, raised, arg, found, out, err, writes) ==
    [op |-> op, raised |-> raised, arg |-> arg, found |-> found, out |-> out,
     err |-> err, writes |-> writes]

CalcInit ==
    /\ c_attrs = {}
    /\ parameters = NoObject
    /\ run_log = <<>>
    /\ run_data = <<>>
    /\ tmp_dir = [f \in FileNames |-> NoFile]
    /\ calls = <<>>
    /\ runs = <<>>
    /\ expected_data = <<>>
    /\ provided_data = <<>>
    /\ input_data = {}
    /\ h5 = NoH5
    /\ c_last = Last("none", "", NoObject, FALSE, <<>>, <<>>, "nothing")

\* PlasmaXRTSCalculator(parameters=arg)
PlasmaXRTSCalculator(arg) ==
    /\ c_attrs = {}
    /\ LET checked == checkAndSetParameters(arg)
       IN /\ c_attrs' = IF checked.raised # "" THEN c_attrs ELSE BaseAttrs \cup OwnAttrs
          /\ parameters' = IF checked.raised # "" THEN parameters ELSE checked.val
          /\ expected_data' = IF checked.raised # "" THEN expected_data
                               ELSE ExpectedDataList
          /\ provided_data' = IF checked.raised # "" THEN provided_data
                               ELSE ProvidedDataList
          /\ c_last' = Last("init", checked.raised, arg, FALSE, <<>>, <<>>, "nothing")
    /\ UNCHANGED <<run_log, run_data, tmp_dir, calls, runs, input_data, h5,
                   parseVars, paramVars, propVars>>

\* if not err == "": raise
stderrIgnored(err) == FALSE
stderrNotEmpty(err) == ~(err = <<>>)

\* if not os.path.isfile(path_to_data): raise
dataMissing(dir) == ~dir["xrts_out.txt"].exists

\* The statements of backengine in the order a call executes them, up to
\* the one that raises (raised = "" for a call that returns).
backengineStepsPopenFirst(raised) ==
    <<"Popen", "communicate", "_serialize", "check_stderr">>
backengineSteps(raised) ==
    <<"_serialize", "Popen">>
    \o (IF raised = "OSError" THEN <<>> ELSE <<"communicate", "check_stderr">>)
    \o (IF raised \in {"OSError", "RuntimeError"} THEN <<>> ELSE <<"check_output">>)
    \o (IF raised \in {"OSError", "RuntimeError", "IOError"} THEN <<>>
        ELSE <<"store_run_log", "write_xrts_log", "loadtxt">>)
    \o (IF raised = "" THEN <<"store_run_data">> ELSE <<>>)

\* self.backengine(), with what the environment does: found (the command is
\* an executable on the PATH), the process's stdout and stderr, and what it
\* writes.
backengine(found, out, err, writes) ==
    /\ "parameters" \in c_attrs
    /\ Len(calls) < MaxCalls
    /\ LET serialized == [tmp_dir EXCEPT !["input.dat"] = File(<<"deck">>)]
           ran == IF ~found \/ writes = "nothing" THEN serialized
                  ELSE [serialized EXCEPT !["xrts_out.txt"] = File(<<writes>>)]
           raised ==
               CASE ~found                  -> "OSError"
                 [] stderrNotEmpty(err)     -> "RuntimeError"
                 [] dataMissing(ran)        -> "IOError"
                 [] ran["xrts_out.txt"].content # <<"table">> -> "ValueError"
                 [] OTHER                   -> ""
           logged == raised \in {"", "ValueError"}
       IN /\ calls' = Append(calls, [cmd |-> CommandSequence, args |-> <<>>,
                                     cwd |-> TmpDirOf(parameters)])
          /\ runs' = Append(runs, [raised |-> raised, steps |-> backengineSteps(raised)])
          /\ run_log' = IF logged THEN out ELSE run_log
          /\ tmp_dir' = IF logged THEN [ran EXCEPT !["xrts.log"] = File(out)] ELSE ran
          /\ run_data' = IF raised = "" THEN ran["xrts_out.txt"].content ELSE run_data
          /\ c_attrs' = c_attrs \cup (IF logged THEN {"run_log"} ELSE {})
                                \cup (IF raised = "" THEN {"run_data"} ELSE {})
          /\ c_last' = Last("backengine", raised, parameters, found, out, err, writes)
    /\ UNCHANGED <<parameters, expected_data, provided_data, input_data, h5,
                   parseVars, paramVars, propVars>>

\* self.expectedData() and self.providedData()
expectedData == expected_data
providedData == provided_data

\* What the file at input_path may be: no file, a file without the dataset
\* misc/spectrum0, a file with it.
InputFiles == {"missing", "no spectrum", "spectrum"}

\* self._readH5()
readH5(infile) ==
    /\ "parameters" \in c_attrs
    /\ input_data' = CASE infile = "missing"     -> input_data
                        [] infile = "no spectrum" -> {}
                        [] infile = "spectrum"    -> {"source_spectrum"}
    /\ c_last' = Last("_readH5",
                      CASE infile = "missing"     -> "IOError"
                        [] infile = "no spectrum" -> "KeyError"
                        [] infile = "spectrum"    -> "",
                      NoObject, FALSE, <<>>, <<>>, "nothing")
    /\ UNCHANGED <<c_attrs, parameters, run_log, run_data, tmp_dir, calls, runs,
                   expected_data, provided_data, h5, parseVars, paramVars, propVars>>

\* The groups saveH5 creates.
H5Groups ==
    { <<"", "data", "dynamic">>, <<"", "data", "static">>, <<"", "history", "parent">>,
      <<"", "info", "units">>, <<"", "params", "beam">> }

\* The name of a dataset in the file: a name without a leading '/' is
\* relative to the root group.
H5Name(path) == IF Head(path) = "" THEN path ELSE <<"">> \o path

\* The dynamic datasets saveH5 creates from the columns of the run data.
DynamicDatasets ==
    { H5Name(<<"data", "dynamic", "energy_shifts">>),
      H5Name(<<"data", "dynamic", "Skw_free">>),
      H5Name(<<"data", "dynamic", "Skw_bound">>),
      H5Name(<<"data", "dynamic", "Skw_total">>) }

\* "/data/static/%s" % (key) for the keys of the static data.
StaticDatasets(dict) == { H5Name(<<"", "data", "static", k>>) : k \in DOMAIN dict }

\* self.__run_data[:,0] needs the attribute, which only backengine sets.
hasRunDataAlways(attrs) == TRUE
hasRunData(attrs) == "run_data" \in attrs

H5File(datasets, closed) ==
    [exists |-> TRUE, groups |-> H5Groups, datasets |-> datasets, closed |-> closed]

\* self.parseStaticData(self.__run_log): the run log is one of the outputs of
\* the tool (or still empty), so the parse is tabulated over them.
parsedRunLog == [log \in Outs |-> parseStaticData(log)]

\* self.saveH5(): the file is opened for writing (truncated) and the groups
\* are created before the run data is read.
saveH5 ==
    /\ "parameters" \in c_attrs
    /\ LET parsed == parsedRunLog[run_log]
           raised == IF ~hasRunData(c_attrs) THEN "AttributeError" ELSE parsed.raised
       IN /\ h5' = CASE ~hasRunData(c_attrs) -> H5File({}, FALSE)
                     [] raised # ""           -> H5File(DynamicDatasets, FALSE)
                     [] OTHER -> H5File(DynamicDatasets \cup StaticDatasets(parsed.dict),
                                        TRUE)
          /\ static_dict' = IF raised = "" THEN parsed ELSE static_dict
          /\ c_attrs' = c_attrs \cup (IF raised = "" THEN {"static_data"} ELSE {})
          /\ c_last' = Last("saveH5", raised, NoObject, FALSE, <<>>, <<>>, "nothing")
    /\ UNCHANGED <<parameters, run_log, run_data, tmp_dir, calls, runs, expected_data,
                   provided_data, input_data, report, text, paramVars, propVars>>

(***************************************************************************)
(* Specifications.                                                         *)
(***************************************************************************)
Init == CalcInit /\ ParseIdle /\ ParamsInit /\ PropInit
InitParse == CalcInit /\ ParseInit /\ ParamsInit /\ PropInit

Next ==
    \/ c_attrs = {} /\ \E arg \in ParameterArgs : PlasmaXRTSCalculator(arg)
    \/ Len(calls) < MaxCalls /\ \E found \in BOOLEAN, out \in Outs, err \in Errs, writes \in Writes :
           backengine(found, out, err, writes)
    \/ \E infile \in InputFiles : readH5(infile)
    \/ saveH5

Spec == Init /\ [][Next]_vars

NextParse == Parse
SpecParse == InitParse /\ [][NextParse]_vars

NextParams ==
    \/ p_last.op = "none" /\
       \E pe \in ArgVals("photon_energy"),
          bw \in ArgVals("photon_energy_relative_bandwidth"),
          bd \in ArgVals("beam_diameter_fwhm"),
          pu \in ArgVals("pulse_energy"),
          dv \in ArgVals("divergence"),
          st \in ArgVals("photon_energy_spectrum_type") :
           Construct(CtorArgs(pe, bw, bd, pu, dv, st))
    \/ \E a \in Attrs : \E v \in ArgVals(a) : SetAttr(a, v)
SpecParams == Init /\ [][NextParams]_vars

NextProp ==
    prop_out.status = "not called" /\
    \E exists \in BOOLEAN, wf \in Wavefronts : propToBeamParameters(exists, wf)
SpecProp == Init /\ [][NextProp]_vars

(***************************************************************************)
(* Properties.                                                             *)
(***************************************************************************)

\* C1: a backengine call whose process wrote to stderr, or after which
\* xrts_out.txt is missing from the temporary directory, raises, and leaves
\* the run log, the run data and the file xrts.log as they were.
C1_FailedRunNotRecorded ==
    [][(/\ c_last'.op = "backengine"
        /\ Len(calls') = Len(calls) + 1
        /\ c_last'.found
        /\ (c_last'.err # <<>> \/ ~tmp_dir'["xrts_out.txt"].exists))
       => (/\ c_last'.raised \in {"RuntimeError", "IOError"}
           /\ run_log' = run_log
           /\ run_data' = run_data
           /\ c_attrs' = c_attrs
           /\ tmp_dir'["xrts.log"] = tmp_dir["xrts.log"])]_vars

\* A run that failed on stderr after an earlier run had been recorded.
C1_Witness ==
    /\ c_last.op = "backengine"
    /\ c_last.found
    /\ c_last.err # <<>>
    /\ c_last.raised = "RuntimeError"
    /\ "run_data" \in c_attrs
    /\ run_log # c_last.out

\* C2: every subprocess backengine starts is the command `xrts`, without
\* arguments, run in the parameters' temporary directory.
C2_InvokesXrts ==
    \A i \in 1..Len(calls) :
        /\ calls[i].cmd = <<"xrts">>
        /\ calls[i].args = <<>>
        /\ calls[i].cwd = TmpDirOf(parameters)

C4_MissingFileRaises ==
    (prop_out.status # "not called" /\ ~prop_in.exists) =>
        /\ prop_out.status = "IOError"
        /\ prop_out.wavefront = "none"
        /\ prop_out.moments = NoMoments
        /\ prop_out.obj = NoFields

C4_Witness == prop_out.status = "IOError" /\ ~prop_in.exists

\* The type the documentation declares for each parameter.
DeclaredType(attr) == IF attr = "photon_energy_spectrum_type" THEN "str" ELSE "float"

\* C5 (as stated): assigning to a parameter a value whose type is not the
\* declared one raises and leaves every parameter as it was.
C5_AnyWrongTypeRejected ==
    [][\A a \in Attrs :
          (/\ p_last'.op = "set"
           /\ p_last'.args[a].type \notin {"absent", DeclaredType(a)})
          => (p_last'.raised = "TypeError" /\ p_fields' = p_fields
              /\ p_exists' = p_exists)]_vars

\* C5 (amended): assigning to a parameter a value other than None whose
\* type is not the declared one raises and leaves every parameter as it was.
C5_WrongTypeRejected ==
    [][\A a \in Attrs :
          (/\ p_last'.op = "set"
           /\ p_last'.args[a].type \notin {"absent", "NoneType", DeclaredType(a)})
          => (p_last'.raised = "TypeError" /\ p_fields' = p_fields
              /\ p_exists' = p_exists)]_vars

\* A string assigned to divergence was rejected and a float is still stored.
C5_Witness ==
    /\ p_last.op = "set"
    /\ p_last.args["divergence"].type = "str"
    /\ p_last.raised = "TypeError"
    /\ p_fields["divergence"] = F(7, 1)

\* The documented default of each optional parameter.
OptionalAttrs == {"photon_energy_relative_bandwidth", "divergence",
                  "photon_energy_spectrum_type"}
DocumentedDefault(attr) ==
    CASE attr = "photon_energy_relative_bandwidth" -> F(1, 100)
      [] attr = "divergence"                       -> F(0, 1)
      [] attr = "photon_energy_spectrum_type"      -> Str("SASE")

\* C6: a successful construction or assignment that gives None for an
\* optional parameter stores its default: 0.01 for the relative bandwidth,
\* 0.0 for the divergence and "SASE" for the spectrum type.
C6_NoneStoresDefault ==
    (p_last.op \in {"construct", "set"} /\ p_last.raised = "") =>
        \A a \in OptionalAttrs :
            p_last.args[a] = None => p_fields[a] = DocumentedDefault(a)

\* None assigned to the divergence of an existing object.
C6_Witness ==
    /\ p_last.op = "set"
    /\ p_last.args["divergence"] = None
    /\ p_last.raised = ""
    /\ p_fields["divergence"] = F(0, 1)
    /\ p_fields["photon_energy_relative_bandwidth"] = F(7, 1)

\* 2*pi to six decimals.
TwoPi == F(6283185, 1000000)

\* C7: the fields of an existing object lie in their documented domains:
\* relative bandwidth > 0, 0 <= divergence <= 2*pi, spectrum type one of
\* "SASE", "tophat", "twocolour".
C7_FieldsInDomain ==
    p_exists =>
        /\ RatLess(F(0, 1), p_fields["photon_energy_relative_bandwidth"])
        /\ ~RatLess(p_fields["divergence"], F(0, 1))
        /\ ~RatLess(TwoPi, p_fields["divergence"])
        /\ p_fields["photon_energy_spectrum_type"].s \in {"SASE", "tophat", "twocolour"}

\* C8: when the log has a line "<label> = <decimal number>" for every
\* quantity, the value parseStaticData stores under each key is the number
\* printed on the first such line.
C8_StoresPrintedNumber ==
    (static_dict.raised # "not run" /\ \A k \in KeySet : HasLine(report, k)) =>
        /\ static_dict.raised = ""
        /\ \A k \in KeySet :
               RatEq(static_dict.dict[k],
                     F(FirstLine(report, k).num.n, FirstLine(report, k).num.d))

\* The intensity is non-zero in exactly one slice.
DeltaLike(I) == Cardinality({i \in DOMAIN I : I[i] # 0}) = 1
IsZero(v) == v.kind \in {"rat", "sqrt"} /\ v.n = 0

\* C9: for an intensity that is non-zero in exactly one slice the RMS width
\* is zero and the call returns an object whose relative bandwidth is zero.
C9_DeltaGivesZeroBandwidth ==
    (prop_out.status # "not called" /\ prop_in.exists
        /\ DeltaLike(prop_in.wf.intensity)) =>
        /\ prop_out.status = "returned"
        /\ IsZero(prop_out.rms)
        /\ IsZero(prop_out.obj["photon_energy_relative_bandwidth"])

\* C10 (as stated): the returned beam_diameter_fwhm is the larger of the
\* real-space FWHM values and the returned divergence is the larger of the
\* reciprocal-space FWHM values.
C10_DivergenceIsLargerFwhm ==
    prop_out.status = "returned" =>
        /\ RatEq(prop_out.obj["beam_diameter_fwhm"],
                 F(Max(prop_in.wf.xy_fwhm.x, prop_in.wf.xy_fwhm.y), 1))
        /\ RatEq(prop_out.obj["divergence"],
                 F(Max(prop_in.wf.qxqy_fwhm.x, prop_in.wf.qxqy_fwhm.y), 1))

\* C10 (amended): the returned beam_diameter_fwhm is the larger of the
\* real-space FWHM values and twice the returned divergence is the larger
\* of the reciprocal-space FWHM values.
C10_DivergenceIsHalfLargerFwhm ==
    prop_out.status = "returned" =>
        /\ prop_out.obj["beam_diameter_fwhm"].kind = "rat"
        /\ prop_out.obj["beam_diameter_fwhm"].n =
               Max(prop_in.wf.xy_fwhm.x, prop_in.wf.xy_fwhm.y)
                   * prop_out.obj["beam_diameter_fwhm"].d
        /\ prop_out.obj["divergence"].kind = "rat"
        /\ 2 * prop_out.obj["divergence"].n =
               Max(prop_in.wf.qxqy_fwhm.x, prop_in.wf.qxqy_fwhm.y)
                   * prop_out.obj["divergence"].d

\* A returned object for a wavefront that is wider in y than in x, in real
\* and in reciprocal space.
C10_Witness ==
    /\ prop_out.status = "returned"
    /\ prop_in.wf.xy_fwhm.x < prop_in.wf.xy_fwhm.y
    /\ prop_in.wf.qxqy_fwhm.x < prop_in.wf.qxqy_fwhm.y

\* The positions of step st in a call's steps.
StepAt(steps, st) == {i \in 1..Len(steps) : steps[i] = st}

\* Every position of step a lies before every position of step b.
Before(steps, a, b) == \A i \in StepAt(steps, a), j \in StepAt(steps, b) : i < j

\* The steps that use what the subprocess produced.
AfterExitSteps == {"check_stderr", "check_output", "store_run_log", "write_xrts_log",
                   "loadtxt", "store_run_data"}

\* C11: every backengine call serializes the parameters before it starts
\* the subprocess, starts exactly one subprocess, and checks stderr, checks
\* the output file, stores the run log and loads the run data only after
\* that subprocess has exited.
C11_LinearPipeline ==
    /\ Len(calls) = Len(runs)
    /\ \A r \in 1..Len(runs) :
          LET steps == runs[r].steps
          IN /\ Cardinality(StepAt(steps, "_serialize")) = 1
             /\ Cardinality(StepAt(steps, "Popen")) = 1
             /\ Before(steps, "_serialize", "Popen")
             /\ Before(steps, "Popen", "communicate")
             /\ \A st \in AfterExitSteps :
                   /\ Before(steps, "communicate", st)
                   /\ (StepAt(steps, st) # {} => StepAt(steps, "communicate") # {})

\* A call that ran to its end after a call that failed: the failed call was
\* not repeated by backengine itself.
C11_Witness ==
    /\ Len(runs) = 2
    /\ runs[1].raised = "IOError"
    /\ runs[2].raised = ""
    /\ "store_run_data" \in {runs[2].steps[i] : i \in 1..Len(runs[2].steps)}

\* The entries of a list.
Entries(list) == {list[i] : i \in 1..Len(list)}

\* C12: every dataset a successful saveH5 has written to the output file
\* is an entry of the list providedData() returns.
C12_WrittenPathsProvided ==
    (c_last.op = "saveH5" /\ c_last.raised = "")
        => h5.datasets \subseteq Entries(providedData)

\* A non-empty list of strings that each begin with '/'.
IsPathList(list) ==
    /\ Len(list) > 0
    /\ \A i \in 1..Len(list) : Len(list[i]) >= 2 /\ Head(list[i]) = ""

\* C13: on a constructed calculator expectedData() and providedData() each
\* return a list of strings beginning with '/', and no call of backengine,
\* _readH5 or saveH5 changes what they return.
C13_DataInterfaceFixed ==
    [][ /\ ("parameters" \in c_attrs') =>
              (IsPathList(expectedData') /\ IsPathList(providedData'))
        /\ ("parameters" \in c_attrs) =>
              (expectedData' = expectedData /\ providedData' = providedData) ]_vars

\* backengine, _readH5 and saveH5 have all acted on the calculator and the
\* queries still return the lists of the constructor.
C13_Witness ==
    /\ Len(runs) > 0
    /\ input_data = {"source_spectrum"}
    /\ c_last.op = "saveH5"
    /\ h5.exists
    /\ expectedData = ExpectedDataList
    /\ providedData = ProvidedDataList

\* Some backengine call has returned without raising.
SomeRunSucceeded == \E r \in 1..Len(runs) : runs[r].raised = ""

\* C14: saveH5 on a calculator on which no backengine call has returned
\* without raising fails and leaves no dataset in the output file; the
\* file holds datasets only once a backengine call has succeeded and has
\* stored both the run log and the run data.
C14_NoDatasetsWithoutRun ==
    /\ (c_last.op = "saveH5" /\ ~SomeRunSucceeded)
          => (c_last.raised # "" /\ h5.datasets = {})
    /\ h5.datasets # {}
          => (SomeRunSucceeded /\ {"run_log", "run_data"} \subseteq c_attrs)

\* saveH5 was called after backengine calls that all failed: it raised on
\* the missing run data, after it had created the file and its groups.
C14_Witness ==
    /\ c_last.op = "saveH5"
    /\ c_last.raised = "AttributeError"
    /\ Len(runs) > 0
    /\ \A r \in 1..Len(runs) : runs[r].raised \in {"RuntimeError", "IOError"}
    /\ h5.exists
    /\ h5.datasets = {}

====
